---- MODULE Spec2Model ----
(***************************************************************************)
(* JsonEditor: a browser JSON editor (one React component, App, and the    *)
(* recursive tree component JsonNode).                                     *)
(*                                                                         *)
(* The state is App's useState cells and the expanded cell of every        *)
(* mounted JsonNode.  A step is one event handler followed by the effects  *)
(* React runs for the dependencies the handler changed (the Validation     *)
(* Effect on jsonText, the Search Logic Effect on searchText, jsonText and *)
(* isSearchOpen) and by the reconciliation of the tree view.               *)
(*                                                                         *)
(* A text is a sequence of UTF-16 code units.  A code unit is written as a *)
(* one-character string when it is printable ASCII, "\n" "\t" "\r" "\f",   *)
(* and as "U+XXXX" (four upper-case hex digits) otherwise.                 *)
(*                                                                         *)
(* Not modelled: handleCopy, handleEncodeGzip, formatBytes and the focus   *)
(* and selection of the DOM (scrollToMatch), which write none of the state *)
(* below.                                                                  *)
(***************************************************************************)
EXTENDS Integers, Sequences, FiniteSets, TLC

VARIABLES
    jsonText,           \* useState: the document text
    parsedJson,         \* useState: the parsed value, or null
    error,              \* useState: the JSON error message, or null
    gzipInput,          \* useState: the text of the decoder's textarea
    gzipError,          \* useState: the gzip error message, or null
    isSearchOpen,       \* useState: whether the search toolbar is shown
    searchText,         \* useState: the query
    searchMatches,      \* useState: the MatchSet
    currentMatchIndex,  \* useState: the selected match
    expanded,           \* the expanded cell of every mounted JsonNode, by path
    pako,               \* whether window.pako is defined (the CDN script loaded)
    lastStep            \* history: what the last step was, for the properties over two steps

vars == <<jsonText, parsedJson, error, gzipInput, gzipError, isSearchOpen,
          searchText, searchMatches, currentMatchIndex, expanded, pako, lastStep>>

-----------------------------------------------------------------------------
(* Bounds of the model.                                                    *)

\* The longest text the user types character by character (search runs).
MaxTextLen == 3
\* The longest query the user types.
MaxQueryLen == 2
\* The longest JSON text the user types character by character (JSON runs).
MaxJsonLen == 3
\* The longest decoder input the user types character by character.
MaxGzipLen == 4

-----------------------------------------------------------------------------
(* Code units.                                                             *)

\* Printable ASCII, code units 32 .. 126 in order (the grave accent, which a
\* string of this notation cannot hold, is written "U+0060").
Ascii ==
    <<" ", "!", "\"", "#", "$", "%", "&", "'", "(", ")", "*", "+", ",", "-", ".", "/",
      "0", "1", "2", "3", "4", "5", "6", "7", "8", "9", ":", ";", "<", "=", ">", "?",
      "@", "A", "B", "C", "D", "E", "F", "G", "H", "I", "J", "K", "L", "M", "N", "O",
      "P", "Q", "R", "S", "T", "U", "V", "W", "X", "Y", "Z", "[", "\\", "]", "^", "_",
      "U+0060", "a", "b", "c", "d", "e", "f", "g", "h", "i", "j", "k", "l", "m", "n", "o",
      "p", "q", "r", "s", "t", "u", "v", "w", "x", "y", "z", "{", "|", "}", "~">>

\* The control characters, code units 0 .. 31 in order.
Ctrl ==
    <<"U+0000", "U+0001", "U+0002", "U+0003", "U+0004", "U+0005", "U+0006", "U+0007",
      "U+0008", "\t", "\n", "U+000B", "\f", "\r", "U+000E", "U+000F",
      "U+0010", "U+0011", "U+0012", "U+0013", "U+0014", "U+0015", "U+0016", "U+0017",
      "U+0018", "U+0019", "U+001A", "U+001B", "U+001C", "U+001D", "U+001E", "U+001F">>

HexDigits == <<"0", "1", "2", "3", "4", "5", "6", "7", "8", "9", "a", "b", "c", "d", "e", "f">>
HexUpper == <<"0", "1", "2", "3", "4", "5", "6", "7", "8", "9", "A", "B", "C", "D", "E", "F">>

Range(s) == {s[i] : i \in DOMAIN s}
IsControl(c) == c \in Range(Ctrl)
CtrlCode(c) == (CHOOSE i \in DOMAIN Ctrl : Ctrl[i] = c) - 1
IsHex(c) == c \in Range(HexDigits) \cup Range(HexUpper)
HexVal(c) ==
    IF c \in Range(HexDigits) THEN (CHOOSE i \in DOMAIN HexDigits : HexDigits[i] = c) - 1
    ELSE (CHOOSE i \in DOMAIN HexUpper : HexUpper[i] = c) - 1

\* String.fromCharCode of a code unit 0 .. 65535.
CharOf(code) ==
    IF code < 32 THEN Ctrl[code + 1]
    ELSE IF code < 127 THEN Ascii[code - 31]
    ELSE "U+" \o HexUpper[(code \div 4096) + 1] \o HexUpper[((code \div 256) % 16) + 1]
              \o HexUpper[((code \div 16) % 16) + 1] \o HexUpper[(code % 16) + 1]

Digits == {"0", "1", "2", "3", "4", "5", "6", "7", "8", "9"}
DigitVal(c) == HexVal(c)

\* F(v), with v evaluated once.
With(v, F(_)) == CHOOSE y \in {F(x) : x \in {v}} : TRUE

\* The concatenation of the sequences of ss (by halves, which keeps the
\* evaluation shallow).
RECURSIVE Flatten(_)
Flatten(ss) ==
    IF Len(ss) = 0 THEN <<>>
    ELSE IF Len(ss) = 1 THEN ss[1]
    ELSE Flatten(SubSeq(ss, 1, Len(ss) \div 2)) \o Flatten(SubSeq(ss, (Len(ss) \div 2) + 1, Len(ss)))

RECURSIVE Repeat(_, _)
Repeat(s, n) == IF n <= 0 THEN <<>> ELSE s \o Repeat(s, n - 1)

\* All sequences over alphabet a of length at most n.
RECURSIVE SeqsUpTo(_, _)
SeqsUpTo(a, n) ==
    IF n = 0 THEN {<<>>}
    ELSE LET shorter == SeqsUpTo(a, n - 1)
         IN shorter \cup {Append(s, c) : s \in {t \in shorter : Len(t) = n - 1}, c \in a}

-----------------------------------------------------------------------------
(* String.prototype.toLowerCase, trim and indexOf.                         *)

UpperLetters == <<"A", "B", "C", "D", "E", "F", "G", "H", "I", "J", "K", "L", "M",
                  "N", "O", "P", "Q", "R", "S", "T", "U", "V", "W", "X", "Y", "Z">>
LowerLetters == <<"a", "b", "c", "d", "e", "f", "g", "h", "i", "j", "k", "l", "m",
                  "n", "o", "p", "q", "r", "s", "t", "u", "v", "w", "x", "y", "z">>

\* The lower-case mapping of one code unit: ASCII letters, and U+0130 (capital I
\* with dot above), the one character whose lower case is two code units,
\* U+0069 U+0307.  Every other code unit used below has no lower-case mapping.
LowerOf(c) ==
    IF c \in Range(UpperLetters)
    THEN <<LowerLetters[CHOOSE i \in DOMAIN UpperLetters : UpperLetters[i] = c]>>
    ELSE IF c = "U+0130" THEN <<"i", "U+0307">>
    ELSE <<c>>

toLowerCase(s) == Flatten([i \in DOMAIN s |-> LowerOf(s[i])])

\* WhiteSpace and LineTerminator of ECMAScript, which trim() strips.
TrimSpace == {" ", "\t", "\n", "\r", "\f", "U+000B", "U+00A0", "U+FEFF", "U+2028", "U+2029"}

\* !text.trim()
IsBlank(s) == \A i \in DOMAIN s : s[i] \in TrimSpace

\* s.indexOf(q, from), 0-based, -1 when q does not occur at or after from.
indexOf(s, q, from) ==
    With({k \in from .. (Len(s) - Len(q)) : SubSeq(s, k + 1, k + Len(q)) = q}, LAMBDA hits :
        IF hits = {} THEN -1 ELSE CHOOSE k \in hits : \A j \in hits : k <= j)

-----------------------------------------------------------------------------
(* JavaScript values.                                                      *)

\* null: the initial value of parsedJson, error and gzipError, and the JSON null.
Null == [t |-> "null"]
JBool(b) == [t |-> "bool", b |-> b]
JStr(s) == [t |-> "str", s |-> s]
JArr(items) == [t |-> "arr", items |-> items]
\* An object: its own properties <<key, value>> in the order Object.keys lists them.
JObj(members) == [t |-> "obj", members |-> members]

\* A Number: 0, or (-1)^neg * 0.d1..dk * 10^n with d1 and dk non-zero digits,
\* or +-Infinity.  Exact for the decimal literals of at most 15 significant
\* digits outside the subnormal range, which are all the literals the runs
\* below reach; -0 is not told apart from 0 (they are === and both falsy).
Zero == [t |-> "num", inf |-> FALSE, neg |-> FALSE, digits |-> <<>>, n |-> 0]
Infinity(neg) == [t |-> "num", inf |-> TRUE, neg |-> neg, digits |-> <<>>, n |-> 0]
Finite(neg, digits, n) == [t |-> "num", inf |-> FALSE, neg |-> neg, digits |-> digits, n |-> n]

\* ToBoolean(v): the test of `if (parsedJson)` and of `parsedJson ? ... : null`.
Truthy(v) ==
    CASE v.t = "null" -> FALSE
      [] v.t = "bool" -> v.b
      [] v.t = "num" -> v.inf \/ v.digits /= <<>>
      [] v.t = "str" -> v.s /= <<>>
      [] OTHER -> TRUE

IsContainer(v) == v.t \in {"arr", "obj"}

-----------------------------------------------------------------------------
(* Numbers: the value of a JSON number literal, and Number::toString.      *)

RECURSIVE StripLeadingZeros(_)
StripLeadingZeros(ds) ==
    IF ds /= <<>> /\ Head(ds) = "0" THEN StripLeadingZeros(Tail(ds)) ELSE ds

RECURSIVE StripTrailingZeros(_)
StripTrailingZeros(ds) ==
    IF ds /= <<>> /\ ds[Len(ds)] = "0" THEN StripTrailingZeros(SubSeq(ds, 1, Len(ds) - 1)) ELSE ds

\* The value of a digit string, 9999 for one of more than four significant
\* digits (as an exponent, anything above 400 is beyond the range of a double).
RECURSIVE DigitsToNat(_)
DigitsToNat(ds) ==
    LET sig == StripLeadingZeros(ds)
    IN IF sig = <<>> THEN 0
       ELSE IF Len(sig) > 4 THEN 9999
       ELSE 10 * DigitsToNat(SubSeq(sig, 1, Len(sig) - 1)) + DigitVal(sig[Len(sig)])

RECURSIVE NatToDigits(_)
NatToDigits(k) ==
    IF k < 10 THEN <<HexDigits[k + 1]>> ELSE Append(NatToDigits(k \div 10), HexDigits[(k % 10) + 1])

\* Whether digit string a is greater than digit string b, compared as decimal
\* fractions 0.a and 0.b.
RECURSIVE FracGreater(_, _)
FracGreater(a, b) ==
    IF a = <<>> THEN FALSE
    ELSE IF b = <<>> THEN TRUE
    ELSE IF Head(a) /= Head(b) THEN DigitVal(Head(a)) > DigitVal(Head(b))
    ELSE FracGreater(Tail(a), Tail(b))

\* The largest double is 1.7976931348623157e308; a literal of at most 15
\* significant digits rounds to Infinity exactly when it is above it.
MaxDoubleDigits == <<"1", "7", "9", "7", "6", "9", "3", "1", "3", "4", "8", "6", "2", "3", "1", "5", "7">>

\* The Number a JSON number literal denotes: sign, integer digits, fraction
\* digits, exponent sign and exponent digits.
ToNumber(neg, int, frac, expNeg, exp) ==
    LET all == int \o frac
        lead == Len(all) - Len(StripLeadingZeros(all))
        digits == StripTrailingZeros(StripLeadingZeros(all))
        e == IF expNeg THEN 0 - DigitsToNat(exp) ELSE DigitsToNat(exp)
        n == Len(int) - lead + e
    IN IF digits = <<>> THEN Zero
       ELSE IF n > 309 \/ (n = 309 /\ FracGreater(digits, MaxDoubleDigits)) THEN Infinity(neg)
       ELSE IF n < -323 THEN Zero
       ELSE Finite(neg, digits, n)

\* Number::toString(v) in radix 10, the text React and JSON.stringify show
\* for a finite Number.
NumberToString(v) ==
    LET k == Len(v.digits)
        n == v.n
        sign == IF v.neg THEN <<"-">> ELSE <<>>
        e == n - 1
        expo == (IF e < 0 THEN <<"e", "-">> ELSE <<"e", "+">>)
                    \o NatToDigits(IF e < 0 THEN 0 - e ELSE e)
    IN IF v.inf THEN sign \o <<"I", "n", "f", "i", "n", "i", "t", "y">>
       ELSE IF k = 0 THEN <<"0">>
       ELSE IF k <= n /\ n <= 21 THEN sign \o v.digits \o Repeat(<<"0">>, n - k)
       ELSE IF 0 < n /\ n <= 21
            THEN sign \o SubSeq(v.digits, 1, n) \o <<".">> \o SubSeq(v.digits, n + 1, k)
       ELSE IF -6 < n /\ n <= 0
            THEN sign \o <<"0", ".">> \o Repeat(<<"0">>, 0 - n) \o v.digits
       ELSE IF k = 1 THEN sign \o v.digits \o expo
       ELSE sign \o <<v.digits[1], ".">> \o SubSeq(v.digits, 2, k) \o expo

-----------------------------------------------------------------------------
(* JSON.parse.  A parse step returns [ok, val, pos]: whether it succeeded, *)
(* the value, and the 1-based position after it (of the offending code     *)
(* unit when it failed).                                                   *)

Ok(v, p) == [ok |-> TRUE, val |-> v, pos |-> p]
Fail(p) == [ok |-> FALSE, val |-> Null, pos |-> p]

JsonWs == {" ", "\t", "\n", "\r"}

RECURSIVE SkipWs(_, _)
SkipWs(s, p) == IF p <= Len(s) /\ s[p] \in JsonWs THEN SkipWs(s, p + 1) ELSE p

\* The position after the run of decimal digits that starts at p.
RECURSIVE DigitsEnd(_, _)
DigitsEnd(s, p) == IF p <= Len(s) /\ s[p] \in Digits THEN DigitsEnd(s, p + 1) ELSE p

\* The code unit a single-character escape \c denotes.
SimpleEscapes == {"\"", "\\", "/", "b", "f", "n", "r", "t"}
Unescape(c) ==
    CASE c = "b" -> "U+0008"
      [] c = "f" -> "\f"
      [] c = "n" -> "\n"
      [] c = "r" -> "\r"
      [] c = "t" -> "\t"
      [] OTHER -> c

\* The characters of a string literal from p (after the opening quote) to the
\* closing quote; val is the sequence of code units.
RECURSIVE ParseChars(_, _, _)
ParseChars(s, p, acc) ==
    IF p > Len(s) THEN Fail(p)
    ELSE IF s[p] = "\"" THEN Ok(acc, p + 1)
    ELSE IF IsControl(s[p]) THEN Fail(p)
    ELSE IF s[p] /= "\\" THEN ParseChars(s, p + 1, Append(acc, s[p]))
    ELSE IF p + 1 > Len(s) THEN Fail(p + 1)
    ELSE IF s[p + 1] \in SimpleEscapes
         THEN ParseChars(s, p + 2, Append(acc, Unescape(s[p + 1])))
    ELSE IF s[p + 1] = "u" /\ p + 5 <= Len(s) /\ \A j \in (p + 2) .. (p + 5) : IsHex(s[j])
         THEN ParseChars(s, p + 6,
                  Append(acc, CharOf(4096 * HexVal(s[p + 2]) + 256 * HexVal(s[p + 3])
                                     + 16 * HexVal(s[p + 4]) + HexVal(s[p + 5]))))
    ELSE Fail(p + 1)

\* A number literal at p: -? (0 | [1-9][0-9]*) (. [0-9]+)? ([eE] [+-]? [0-9]+)?
ParseNumber(s, p) ==
    With(IF s[p] = "-" THEN p + 1 ELSE p, LAMBDA i0 :
    With(IF i0 <= Len(s) /\ s[i0] = "0" THEN i0 + 1 ELSE DigitsEnd(s, i0), LAMBDA intEnd :
    With(intEnd <= Len(s) /\ s[intEnd] = ".", LAMBDA hasFrac :
    With(IF hasFrac THEN DigitsEnd(s, intEnd + 1) ELSE intEnd, LAMBDA fracEnd :
    With(fracEnd <= Len(s) /\ s[fracEnd] \in {"e", "E"}, LAMBDA hasExp :
    With(hasExp /\ fracEnd + 1 <= Len(s) /\ s[fracEnd + 1] \in {"+", "-"}, LAMBDA hasSign :
    With(IF hasSign THEN fracEnd + 2 ELSE fracEnd + 1, LAMBDA expStart :
    With(IF hasExp THEN DigitsEnd(s, expStart) ELSE fracEnd, LAMBDA expEnd :
        IF intEnd = i0 THEN Fail(i0)
        ELSE IF hasFrac /\ fracEnd = intEnd + 1 THEN Fail(fracEnd)
        ELSE IF hasExp /\ expEnd = expStart THEN Fail(expStart)
        ELSE Ok(ToNumber(s[p] = "-",
                         SubSeq(s, i0, intEnd - 1),
                         IF hasFrac THEN SubSeq(s, intEnd + 1, fracEnd - 1) ELSE <<>>,
                         hasSign /\ s[fracEnd + 1] = "-",
                         IF hasExp THEN SubSeq(s, expStart, expEnd - 1) ELSE <<>>),
                expEnd)))))))))

ParseLiteral(s, p, word, v) ==
    IF p + Len(word) - 1 <= Len(s) /\ SubSeq(s, p, p + Len(word) - 1) = word
    THEN Ok(v, p + Len(word))
    ELSE LET same == {k \in 0 .. Len(word) :
                         \A j \in 1 .. k : p + j - 1 <= Len(s) /\ s[p + j - 1] = word[j]}
         IN Fail(p + CHOOSE k \in same : \A j \in same : j <= k)

\* A property key that is an array index ("0", "1", ... up to 2^32 - 2):
\* Object.keys lists these first, in ascending numeric order.
MaxIndexDigits == <<"4", "2", "9", "4", "9", "6", "7", "2", "9", "4">>
IsArrayIndex(key) ==
    /\ key /= <<>>
    /\ \A i \in DOMAIN key : key[i] \in Digits
    /\ key = <<"0">> \/ Head(key) /= "0"
    /\ Len(key) < 10 \/ (Len(key) = 10 /\ ~FracGreater(key, MaxIndexDigits))
IndexLess(a, b) == Len(a) < Len(b) \/ (Len(a) = Len(b) /\ FracGreater(b, a))

\* CreateDataProperty(obj, key, val): a key already present keeps its place
\* and takes the new value; a new array index goes among the array indices,
\* any other new key at the end.
Put(members, key, val) ==
    IF \E i \in DOMAIN members : members[i][1] = key
    THEN [i \in DOMAIN members |-> IF members[i][1] = key THEN <<key, val>> ELSE members[i]]
    ELSE IF IsArrayIndex(key)
    THEN LET before == Cardinality({i \in DOMAIN members :
                           IsArrayIndex(members[i][1]) /\ IndexLess(members[i][1], key)})
         IN SubSeq(members, 1, before) \o <<<<key, val>>>>
                \o SubSeq(members, before + 1, Len(members))
    ELSE Append(members, <<key, val>>)

RECURSIVE ParseValue(_, _), ParseItems(_, _, _), ParseMembers(_, _, _)

\* A JSON value at or after p0 (leading white space skipped).
ParseValue(s, p0) ==
    With(SkipWs(s, p0), LAMBDA p :
        IF p > Len(s) THEN Fail(p)
        ELSE IF s[p] = "[" THEN
             With(SkipWs(s, p + 1), LAMBDA q :
                 IF q <= Len(s) /\ s[q] = "]" THEN Ok(JArr(<<>>), q + 1)
                 ELSE ParseItems(s, q, <<>>))
        ELSE IF s[p] = "{" THEN
             With(SkipWs(s, p + 1), LAMBDA q :
                 IF q <= Len(s) /\ s[q] = "}" THEN Ok(JObj(<<>>), q + 1)
                 ELSE ParseMembers(s, q, <<>>))
        ELSE IF s[p] = "\"" THEN
             With(ParseChars(s, p + 1, <<>>), LAMBDA r :
                 IF r.ok THEN Ok(JStr(r.val), r.pos) ELSE r)
        ELSE IF s[p] = "-" \/ s[p] \in Digits THEN ParseNumber(s, p)
        ELSE IF s[p] \in {"t", "f", "n"} THEN
             With(CASE s[p] = "t" -> <<<<"t", "r", "u", "e">>, JBool(TRUE)>>
                    [] s[p] = "f" -> <<<<"f", "a", "l", "s", "e">>, JBool(FALSE)>>
                    [] OTHER -> <<<<"n", "u", "l", "l">>, Null>>,
                  LAMBDA lit : ParseLiteral(s, p, lit[1], lit[2]))
        ELSE Fail(p))

\* The elements of an array from p, acc being the elements before.
ParseItems(s, p, acc) ==
    With(ParseValue(s, p), LAMBDA r :
    With(SkipWs(s, r.pos), LAMBDA q :
        IF ~r.ok THEN r
        ELSE IF q > Len(s) THEN Fail(q)
        ELSE IF s[q] \in {",", "]"} THEN
             With(Append(acc, r.val), LAMBDA items :
                 IF s[q] = "," THEN ParseItems(s, q + 1, items)
                 ELSE Ok(JArr(items), q + 1))
        ELSE Fail(q)))

\* The members of an object from p (at a key), acc being the members before.
ParseMembers(s, p, acc) ==
    With(SkipWs(s, p), LAMBDA k0 :
        IF k0 > Len(s) \/ s[k0] /= "\"" THEN Fail(k0)
        ELSE
        With(ParseChars(s, k0 + 1, <<>>), LAMBDA key :
        With(SkipWs(s, key.pos), LAMBDA c :
            IF ~key.ok THEN key
            ELSE IF c > Len(s) \/ s[c] /= ":" THEN Fail(c)
            ELSE
            With(ParseValue(s, c + 1), LAMBDA r :
            With(SkipWs(s, r.pos), LAMBDA q :
                IF ~r.ok THEN r
                ELSE IF q > Len(s) THEN Fail(q)
                ELSE IF s[q] \in {",", "}"} THEN
                     With(Put(acc, key.val, r.val), LAMBDA members :
                         IF s[q] = "," THEN ParseMembers(s, q + 1, members)
                         ELSE Ok(JObj(members), q + 1))
                ELSE Fail(q))))))

\* JSON.parse(text): one value, white space around it, nothing else.
JSONParse(s) ==
    With(ParseValue(s, 1), LAMBDA r :
    With(SkipWs(s, r.pos), LAMBDA q :
        IF ~r.ok THEN r
        ELSE IF q <= Len(s) THEN Fail(q)
        ELSE Ok(r.val, q)))

\* e.message of the SyntaxError JSON.parse throws: it names the 0-based
\* position of the offending code unit.
SyntaxError(r) == [t |-> "error", position |-> r.pos - 1]

-----------------------------------------------------------------------------
(* JSON.stringify(value, null, gap).                                       *)

\* QuoteJSONString: the escapes of one code unit.  (A lone surrogate, which
\* is written \udXXX, is met by no run below.)
EscapeChar(c) ==
    CASE c = "\"" -> <<"\\", "\"">>
      [] c = "\\" -> <<"\\", "\\">>
      [] c = "U+0008" -> <<"\\", "b">>
      [] c = "\f" -> <<"\\", "f">>
      [] c = "\n" -> <<"\\", "n">>
      [] c = "\r" -> <<"\\", "r">>
      [] c = "\t" -> <<"\\", "t">>
      [] OTHER -> IF IsControl(c)
                  THEN <<"\\", "u", "0", "0", HexDigits[(CtrlCode(c) \div 16) + 1],
                         HexDigits[(CtrlCode(c) % 16) + 1]>>
                  ELSE <<c>>

Quote(s) == <<"\"">> \o Flatten([i \in DOMAIN s |-> EscapeChar(s[i])]) \o <<"\"">>

\* parts[1] sep parts[2] sep ... parts[n]
RECURSIVE Join(_, _)
Join(parts, sep) ==
    IF parts = <<>> THEN <<>>
    ELSE IF Len(parts) = 1 THEN parts[1]
    ELSE parts[1] \o sep \o Join(Tail(parts), sep)

\* SerializeJSONProperty: the text of value v at indentation indent, each
\* level indented by gap (the empty gap puts everything on one line).
RECURSIVE Serialize(_, _, _)
Serialize(v, indent, gap) ==
    LET inner == indent \o gap
        wrap(open, parts, close) ==
            IF parts = <<>> THEN <<open, close>>
            ELSE IF gap = <<>> THEN <<open>> \o Join(parts, <<",">>) \o <<close>>
            ELSE <<open, "\n">> \o inner \o Join(parts, <<",", "\n">> \o inner)
                     \o <<"\n">> \o indent \o <<close>>
    IN CASE v.t = "null" -> <<"n", "u", "l", "l">>
         [] v.t = "bool" -> IF v.b THEN <<"t", "r", "u", "e">> ELSE <<"f", "a", "l", "s", "e">>
         [] v.t = "num" -> IF v.inf THEN <<"n", "u", "l", "l">> ELSE NumberToString(v)
         [] v.t = "str" -> Quote(v.s)
         [] v.t = "arr" ->
                wrap("[", [i \in DOMAIN v.items |-> Serialize(v.items[i], inner, gap)], "]")
         [] v.t = "obj" ->
                wrap("{", [i \in DOMAIN v.members |->
                              Quote(v.members[i][1])
                                  \o (IF gap = <<>> THEN <<":">> ELSE <<":", " ">>)
                                  \o Serialize(v.members[i][2], inner, gap)], "}")

\* JSON.stringify(v, null, 2) and JSON.stringify(v)
StringifyPretty(v) == Serialize(v, <<>>, <<" ", " ">>)
StringifyCompact(v) == Serialize(v, <<>>, <<>>)

-----------------------------------------------------------------------------
(* The search scan of the Search Logic Effect.                             *)

\* The scan putting each match at the front of the array (unshift for push).
RECURSIVE ScanFromPrepends(_, _, _, _)
ScanFromPrepends(lowerText, lowerQuery, startIndex, matches) ==
    With(indexOf(lowerText, lowerQuery, startIndex), LAMBDA index :
        IF index > -1
        THEN With(<<[start |-> index, end |-> index + Len(lowerQuery)]>> \o matches,
                  LAMBDA pushed : ScanFromPrepends(lowerText, lowerQuery, index + 1, pushed))
        ELSE matches)

\* while ((index = lowerText.indexOf(lowerQuery, startIndex)) > -1) { push; startIndex = index + 1 }
RECURSIVE ScanFrom(_, _, _, _)
ScanFrom(lowerText, lowerQuery, startIndex, matches) ==
    With(indexOf(lowerText, lowerQuery, startIndex), LAMBDA index :
        IF index > -1
        THEN With(Append(matches, [start |-> index, end |-> index + Len(lowerQuery)]),
                  LAMBDA pushed : ScanFrom(lowerText, lowerQuery, index + 1, pushed))
        ELSE matches)

\* The matches the effect computes for a text and a non-empty query.
findAll(text, query) ==
    With(toLowerCase(text), LAMBDA lowerText :
    With(toLowerCase(query), LAMBDA lowerQuery :
        ScanFrom(lowerText, lowerQuery, 0, <<>>)))

-----------------------------------------------------------------------------
(* The tree view: JsonNode.                                                *)

\* A path is the sequence of React keys from the root JsonNode to a node: the
\* property name under an Object, the index ("0", "1", ...) under an Array.

\* Object.keys(value) with the values: <<key, child>> in order.
Children(v) ==
    IF v.t = "obj" THEN v.members
    ELSE IF v.t = "arr" THEN [i \in DOMAIN v.items |-> <<NatToDigits(i - 1), v.items[i]>>]
    ELSE <<>>

\* isEmpty
IsEmptyContainer(v) == IsContainer(v) /\ Len(Children(v)) = 0

RECURSIVE ValueAt(_, _)
ValueAt(v, path) ==
    IF path = <<>> THEN v
    ELSE LET kids == Children(v)
             i == CHOOSE j \in DOMAIN kids : kids[j][1] = Head(path)
         IN ValueAt(kids[i][2], Tail(path))

\* No JsonNode is mounted.
NoCells == [q \in {} |-> TRUE]

\* useState(true): the cell of a node that was mounted keeps its value, a node
\* that mounts starts expanded.
CellOf(cells, path) == IF path \in DOMAIN cells THEN cells[path] ELSE TRUE

\* The paths of the JsonNodes a render of value v at path mounts: the node,
\* and the children of an expanded, non-empty container.
RECURSIVE MountedPaths(_, _, _)
MountedPaths(v, path, cells) ==
    {path} \cup
    (IF IsContainer(v) /\ ~IsEmptyContainer(v) /\ CellOf(cells, path)
     THEN UNION {MountedPaths(Children(v)[i][2], Append(path, Children(v)[i][1]), cells) :
                    i \in DOMAIN Children(v)}
     ELSE {})

\* {error || !jsonText ? <div/> : parsedJson ? <JsonNode value={parsedJson} isLast={true} /> : null}
TreeShown(text, value, err) == err = Null /\ text /= <<>> /\ Truthy(value)

\* The cells after React has rendered the tree view: the nodes still rendered
\* keep their cells, the nodes no longer rendered lose them.
Reconcile(cells, text, value, err) ==
    IF TreeShown(text, value, err)
    THEN [q \in MountedPaths(value, <<>>, cells) |-> CellOf(cells, q)]
    ELSE NoCells

\* The text of a primitive: renderValue.
RenderValue(v) ==
    CASE v.t = "str" -> <<"\"">> \o v.s \o <<"\"">>
      [] v.t = "num" -> NumberToString(v)
      [] v.t = "bool" -> IF v.b THEN <<"t", "r", "u", "e">> ELSE <<"f", "a", "l", "s", "e">>
      [] OTHER -> <<"n", "u", "l", "l">>

\* {name && <span>"{name}":</span>}: the key prefix shown, <<name>>, or <<>> when
\* none is shown.  name is <<>> for `undefined` and <<key>> for a string.
KeyShown(name) == IF name /= <<>> /\ name[1] /= <<>> THEN name ELSE <<>>

\* One line of the tree view.
Row(level, name, kind, text, isLast) ==
    [level |-> level, key |-> KeyShown(name), kind |-> kind, text |-> text, comma |-> ~isLast]

\* The lines JsonNode renders for value v with the given name, isLast and
\* level, at path, under the cells.
RECURSIVE JsonNode(_, _, _, _, _, _)
JsonNode(name, v, isLast, level, path, cells) ==
    LET isArray == v.t = "arr"
        kids == Children(v)
        open == IF isArray THEN <<"[">> ELSE <<"{">>
        close == IF isArray THEN <<"]">> ELSE <<"}">>
        summary == (IF isArray THEN <<"A", "r", "r", "a", "y", "(">> \o NatToDigits(Len(kids)) \o <<")">>
                    ELSE <<"O", "b", "j", "e", "c", "t", "{">> \o NatToDigits(Len(kids)) \o <<"}">>)
    IN IF ~IsContainer(v) THEN <<Row(level, name, "primitive", RenderValue(v), isLast)>>
       ELSE IF IsEmptyContainer(v) THEN <<Row(level, name, "empty", open \o close, isLast)>>
       ELSE IF ~CellOf(cells, path)
            THEN <<Row(level, name, "collapsed", open \o summary \o close, isLast)>>
       ELSE <<Row(level, name, "open", open, TRUE)>>
            \o Flatten([i \in DOMAIN kids |->
                   JsonNode(IF isArray THEN <<>> ELSE <<kids[i][1]>>, kids[i][2],
                            i = Len(kids), level + 1, Append(path, kids[i][1]), cells)])
            \o <<Row(level, <<>>, "close", close, isLast)>>

\* The lines of the Tree View section.
TreeView(text, value, err, cells) ==
    IF TreeShown(text, value, err) THEN JsonNode(<<>>, value, TRUE, 0, <<>>, cells) ELSE <<>>

-----------------------------------------------------------------------------
(* atob and base64ToUint8.                                                 *)

Base64Alphabet ==
    UpperLetters \o LowerLetters \o <<"0", "1", "2", "3", "4", "5", "6", "7", "8", "9", "+", "/">>
Base64Val(c) == (CHOOSE i \in DOMAIN Base64Alphabet : Base64Alphabet[i] = c) - 1

AsciiWhitespace == {"\t", "\n", "\f", "\r", " "}

\* The bytes of the base64 digits ds (no padding, Len(ds) % 4 /= 1).
RECURSIVE DecodeDigits(_)
DecodeDigits(ds) ==
    LET v(i) == Base64Val(ds[i])
    IN IF Len(ds) < 2 THEN <<>>
       ELSE IF Len(ds) = 2 THEN <<v(1) * 4 + (v(2) \div 16)>>
       ELSE IF Len(ds) = 3
            THEN <<v(1) * 4 + (v(2) \div 16), (v(2) % 16) * 16 + (v(3) \div 4)>>
       ELSE <<v(1) * 4 + (v(2) \div 16), (v(2) % 16) * 16 + (v(3) \div 4),
              (v(3) % 4) * 64 + v(4)>> \o DecodeDigits(SubSeq(ds, 5, Len(ds)))

\* base64ToUint8(base64): atob's forgiving-base64 decode, then the char codes.
\* [ok, bytes]; ok is FALSE when atob throws InvalidCharacterError.
base64ToUint8(base64) ==
    LET data == SelectSeq(base64, LAMBDA c : c \notin AsciiWhitespace)
        n == Len(data)
        pad == IF n > 0 /\ n % 4 = 0 /\ data[n] = "="
               THEN (IF data[n - 1] = "=" THEN 2 ELSE 1)
               ELSE 0
        ds == SubSeq(data, 1, n - pad)
    IN IF Len(ds) % 4 = 1 \/ \E i \in DOMAIN ds : ds[i] \notin Range(Base64Alphabet)
       THEN [ok |-> FALSE, bytes |-> <<>>]
       ELSE [ok |-> TRUE, bytes |-> DecodeDigits(ds)]

-----------------------------------------------------------------------------
(* The initial state.                                                      *)

\* The initial value of jsonText.
Welcome ==
    <<"{", "\n">> \o
    <<" ", " ", "\"", "w", "e", "l", "c", "o", "m", "e", "\"", ":", " ", "\"", "J", "S", "O", "N", " ", "E", "d", "i", "t", "o", "r", "\"", ",", "\n">> \o
    <<" ", " ", "\"", "f", "e", "a", "t", "u", "r", "e", "s", "\"", ":", " ", "[", "\n">> \o
    <<" ", " ", " ", " ", "\"", "T", "r", "e", "e", " ", "V", "i", "e", "w", "\"", ",", "\n">> \o
    <<" ", " ", " ", " ", "\"", "V", "a", "l", "i", "d", "a", "t", "i", "o", "n", "\"", ",", "\n">> \o
    <<" ", " ", " ", " ", "\"", "G", "z", "i", "p", " ", "C", "o", "m", "p", "r", "e", "s", "s", "i", "o", "n", "\"", "\n">> \o
    <<" ", " ", "]", ",", "\n">> \o
    <<" ", " ", "\"", "a", "c", "t", "i", "v", "e", "\"", ":", " ", "t", "r", "u", "e", ",", "\n">> \o
    <<" ", " ", "\"", "c", "o", "u", "n", "t", "\"", ":", " ", "4", "2", ",", "\n">> \o
    <<" ", " ", "\"", "m", "e", "t", "a", "d", "a", "t", "a", "\"", ":", " ", "n", "u", "l", "l", "\n">> \o
    <<"}">>

\* The Validation Effect with an empty catch block: a text that does not
\* parse leaves the last value in place and sets no error.
ValidationSwallows(text) ==
    IF IsBlank(text) THEN [parsedJson |-> Null, error |-> Null]
    ELSE With(JSONParse(text), LAMBDA r :
             IF r.ok THEN [parsedJson |-> r.val, error |-> Null]
             ELSE [parsedJson |-> parsedJson, error |-> Null])

\* The Validation Effect: what it sets parsedJson and error to for a text.
Validation(text) ==
    IF IsBlank(text) THEN [parsedJson |-> Null, error |-> Null]
    ELSE With(JSONParse(text), LAMBDA r :
             IF r.ok THEN [parsedJson |-> r.val, error |-> Null]
             ELSE [parsedJson |-> Null, error |-> SyntaxError(r)])

\* The Search Logic Effect: what it sets searchMatches to.
SearchLogic(text, query, open) ==
    IF query = <<>> \/ ~open THEN <<>> ELSE findAll(text, query)

\* The state after the first render and its effects.  window.pako is there
\* or not, as the CDN script loaded or failed.
Init ==
    /\ jsonText = Welcome
    /\ \E validated \in {Validation(Welcome)} :
           /\ parsedJson = validated.parsedJson
           /\ error = validated.error
           /\ expanded = Reconcile(NoCells, Welcome, validated.parsedJson, validated.error)
    /\ gzipInput = <<>>
    /\ gzipError = Null
    /\ isSearchOpen = FALSE
    /\ searchText = <<>>
    /\ searchMatches = <<>>
    /\ currentMatchIndex = 0
    /\ pako \in BOOLEAN
    /\ lastStep = Null

-----------------------------------------------------------------------------
(* Rendering.  A handler sets state; React renders, runs the effects whose *)
(* dependencies changed, and renders again with what the effects set.      *)

\* The Search Logic Effect keeping the selected index when the new MatchSet
\* still has a match at it.
SearchLogicEffectKeepsIndex(text, query, open) ==
    IF <<query, text, open>> /= <<searchText, jsonText, isSearchOpen>>
    THEN /\ searchMatches' = SearchLogic(text, query, open)
         /\ currentMatchIndex' = IF currentMatchIndex < Len(SearchLogic(text, query, open))
                                  THEN currentMatchIndex ELSE 0
    ELSE UNCHANGED <<searchMatches, currentMatchIndex>>

\* The Search Logic Effect, dependencies [searchText, jsonText, isSearchOpen]:
\* it runs when one of them has changed.
SearchLogicEffect(text, query, open) ==
    IF <<query, text, open>> /= <<searchText, jsonText, isSearchOpen>>
    THEN /\ searchMatches' = SearchLogic(text, query, open)
         /\ currentMatchIndex' = 0
    ELSE UNCHANGED <<searchMatches, currentMatchIndex>>

\* The step of a handler that leaves jsonText, searchText and isSearchOpen at
\* the given values.
Render(newText, newQuery, newOpen) ==
    \E text \in {newText} :
    \* Validation Effect, dependencies [jsonText]
    \E validated \in {IF text /= jsonText THEN Validation(text)
                      ELSE [parsedJson |-> parsedJson, error |-> error]} :
        /\ jsonText' = text
        /\ searchText' = newQuery
        /\ isSearchOpen' = newOpen
        /\ parsedJson' = validated.parsedJson
        /\ error' = validated.error
        /\ SearchLogicEffect(text, newQuery, newOpen)
        \* the tree view: rendered with the new text and the old parsedJson and
        \* error, then with what the Validation Effect set
        /\ \E interim \in {Reconcile(expanded, text, parsedJson, error)} :
               expanded' = Reconcile(interim, text, validated.parsedJson, validated.error)

\* History: a step that changed the text or the query while the search stayed
\* open, and the index that was selected before it.
NoteChange ==
    lastStep' = IF isSearchOpen /\ isSearchOpen' /\ <<jsonText', searchText'>> /= <<jsonText, searchText>>
                THEN [t |-> "changed", index |-> currentMatchIndex]
                ELSE Null

\* A handler that sets no state: nothing is rendered.
NoRender ==
    UNCHANGED <<jsonText, parsedJson, error, isSearchOpen, searchText, searchMatches,
                currentMatchIndex, expanded>>

-----------------------------------------------------------------------------
(* The handlers.                                                           *)

\* <textarea onChange={(e) => setJsonText(e.target.value)}>, and the Tab key in
\* the textarea, which calls setJsonText with two spaces put into the text.
setJsonText(value) ==
    /\ Render(value, searchText, isSearchOpen)
    /\ NoteChange
    /\ UNCHANGED <<gzipInput, gzipError, pako>>

\* <input onChange={(e) => setSearchText(e.target.value)}>, shown while search is open
setSearchText(value) ==
    /\ isSearchOpen
    /\ Render(jsonText, value, isSearchOpen)
    /\ NoteChange
    /\ UNCHANGED <<gzipInput, gzipError, pako>>

\* The Find button and Ctrl+F in the textarea: setIsSearchOpen(true)
OpenSearch ==
    /\ Render(jsonText, searchText, TRUE)
    /\ NoteChange
    /\ UNCHANGED <<gzipInput, gzipError, pako>>

\* The Close Search button and Escape in the search input: setIsSearchOpen(false)
CloseSearch ==
    /\ isSearchOpen
    /\ Render(jsonText, searchText, FALSE)
    /\ NoteChange
    /\ UNCHANGED <<gzipInput, gzipError, pako>>

\* handleSearchNav's index with the wrap to 0 taken one step late
\* (newIndex > searchMatches.length for newIndex >= searchMatches.length).
NewIndexWrapsLate(direction, index, length) ==
    LET step == IF direction = "next" THEN index + 1 ELSE index - 1
        wrapped == IF step > length THEN 0 ELSE step
    IN IF wrapped < 0 THEN length - 1 ELSE wrapped

\* The index handleSearchNav selects.
NewIndex(direction, index, length) ==
    LET step == IF direction = "next" THEN index + 1 ELSE index - 1
        wrapped == IF step >= length THEN 0 ELSE step
    IN IF wrapped < 0 THEN length - 1 ELSE wrapped

\* handleSearchNav without its first line,
\* if (searchMatches.length === 0) return.
handleSearchNavUnguarded(direction) ==
    /\ isSearchOpen
    /\ currentMatchIndex' = NewIndex(direction, currentMatchIndex, Len(searchMatches))
    /\ lastStep' = [t |-> "nav", direction |-> direction, from |-> currentMatchIndex]
    /\ UNCHANGED <<jsonText, parsedJson, error, isSearchOpen, searchText, searchMatches,
                   expanded, gzipInput, gzipError, pako>>

\* The Next Match and Previous Match buttons, and Enter in the search input.
handleSearchNav(direction) ==
    /\ isSearchOpen
    /\ IF Len(searchMatches) = 0
       THEN UNCHANGED currentMatchIndex
       ELSE currentMatchIndex' = NewIndex(direction, currentMatchIndex, Len(searchMatches))
    /\ lastStep' = [t |-> "nav", direction |-> direction, from |-> currentMatchIndex]
    /\ UNCHANGED <<jsonText, parsedJson, error, isSearchOpen, searchText, searchMatches,
                   expanded, gzipInput, gzipError, pako>>

handleFormat ==
    IF Truthy(parsedJson)
    THEN Render(StringifyPretty(parsedJson), searchText, isSearchOpen)
    ELSE NoRender

handleMinify ==
    IF Truthy(parsedJson)
    THEN Render(StringifyCompact(parsedJson), searchText, isSearchOpen)
    ELSE NoRender

\* A click on the Format button, which is disabled while error is set.
ClickFormat ==
    /\ IF error /= Null THEN NoRender ELSE handleFormat
    /\ NoteChange
    /\ UNCHANGED <<gzipInput, gzipError, pako>>

\* A click on the Minify button, which is disabled while error is set.
ClickMinify ==
    /\ IF error /= Null THEN NoRender ELSE handleMinify
    /\ NoteChange
    /\ UNCHANGED <<gzipInput, gzipError, pako>>

\* <textarea onChange={(e) => setGzipInput(e.target.value)}>
setGzipInput(value) ==
    /\ gzipInput' = value
    /\ lastStep' = Null
    /\ NoRender
    /\ UNCHANGED <<gzipError, pako>>

\* What window.pako.ungzip and TextDecoder.decode make of the bytes is the
\* library's: ungzip throws (Thrown), or the two return a text.
Thrown == [t |-> "thrown"]

\* "Decompression failed: " + e.message
DecompressionFailed(why) == [t |-> "error", message |-> why]

\* The Decode to Editor button clearing the editor before it decodes, as it
\* clears the gzip error: setJsonText('') ahead of the try block.
handleDecodeGzipClearsFirst(inflated) ==
    /\ UNCHANGED <<gzipInput, pako>>
    /\ IF IsBlank(gzipInput)
       THEN gzipError' = Null /\ Render(<<>>, searchText, isSearchOpen)
       ELSE IF ~pako
       THEN /\ gzipError' = DecompressionFailed("Pako library not loaded")
            /\ Render(<<>>, searchText, isSearchOpen)
       ELSE IF ~base64ToUint8(gzipInput).ok
       THEN /\ gzipError' = DecompressionFailed("InvalidCharacterError")
            /\ Render(<<>>, searchText, isSearchOpen)
       ELSE IF inflated = Thrown
       THEN /\ gzipError' = DecompressionFailed("ungzip")
            /\ Render(<<>>, searchText, isSearchOpen)
       ELSE /\ gzipError' = Null
            /\ Render(With(JSONParse(inflated.s), LAMBDA reparsed :
                          IF reparsed.ok THEN StringifyPretty(reparsed.val) ELSE inflated.s),
                      searchText, isSearchOpen)
    /\ NoteChange

\* The Decode to Editor button; inflated is what ungzip and decode return
\* for the bytes, when they are reached.
handleDecodeGzip(inflated) ==
    /\ UNCHANGED <<gzipInput, pako>>
    /\ IF IsBlank(gzipInput)
       THEN gzipError' = Null /\ NoRender
       ELSE IF ~pako
       THEN gzipError' = DecompressionFailed("Pako library not loaded") /\ NoRender
       ELSE IF ~base64ToUint8(gzipInput).ok
       THEN gzipError' = DecompressionFailed("InvalidCharacterError") /\ NoRender
       ELSE IF inflated = Thrown
       THEN gzipError' = DecompressionFailed("ungzip") /\ NoRender
       ELSE /\ gzipError' = Null
            /\ Render(With(JSONParse(inflated.s), LAMBDA reparsed :
                          IF reparsed.ok THEN StringifyPretty(reparsed.val) ELSE inflated.s),
                      searchText, isSearchOpen)
    /\ NoteChange

\* What is shown of the tree and the cells of the nodes below path.
Below(path, q) == Len(q) > Len(path) /\ SubSeq(q, 1, Len(path)) = path
Snapshot(kind, path) ==
    [t |-> kind, path |-> path,
     shown |-> TreeView(jsonText, parsedJson, error, expanded),
     cells |-> [q \in {r \in DOMAIN expanded : Below(path, r)} |-> expanded[q]]]

\* A click on a header line with the expanded flag kept per level of the tree
\* instead of per node: the containers at the level of path flip with it.
toggleLevel(path) ==
    /\ path \in DOMAIN expanded
    /\ IsContainer(ValueAt(parsedJson, path))
    /\ expanded' = Reconcile([q \in DOMAIN expanded |->
                                 IF Len(q) = Len(path) /\ IsContainer(ValueAt(parsedJson, q))
                                 THEN ~expanded[path] ELSE expanded[q]],
                             jsonText, parsedJson, error)
    /\ lastStep' = IF expanded[path] THEN Snapshot("collapsed", path) ELSE Null
    /\ UNCHANGED <<jsonText, parsedJson, error, isSearchOpen, searchText, searchMatches,
                   currentMatchIndex, gzipInput, gzipError, pako>>

\* A click on the header line of the container at path: setExpanded(!expanded).
\* lastStep records a collapse, and that the very next step expanded the same
\* node again.
toggle(path) ==
    /\ path \in DOMAIN expanded
    /\ IsContainer(ValueAt(parsedJson, path))
    /\ expanded' = Reconcile([expanded EXCEPT ![path] = ~expanded[path]],
                             jsonText, parsedJson, error)
    /\ lastStep' = IF expanded[path] THEN Snapshot("collapsed", path)
                   ELSE IF lastStep.t = "collapsed" /\ lastStep.path = path
                   THEN [lastStep EXCEPT !.t = "reexpanded"]
                   ELSE Null
    /\ UNCHANGED <<jsonText, parsedJson, error, isSearchOpen, searchText, searchMatches,
                   currentMatchIndex, gzipInput, gzipError, pako>>

\* The initial state in which the library has loaded.
InitLoaded == Init /\ pako

-----------------------------------------------------------------------------
(* What the user enters.                                                   *)

\* The values a text box holding text can change to by typing one character
\* of the alphabet at its end (up to maxLen characters), deleting its last
\* character (of a text of at most maxLen characters), clearing it, and
\* pasting one of the samples over it.
Edits(text, alphabet, maxLen, samples) ==
    {Append(text, c) : c \in {a \in alphabet : Len(text) < maxLen}}
        \cup {SubSeq(text, 1, Len(text) - 1) : k \in {j \in {1} : 0 < Len(text) /\ Len(text) <= maxLen}}
        \cup {<<>>}
        \cup samples

\* Documents: the scenarios of the tree view and of the search, a null, a key
\* that is the empty string, a number beyond the range of a double, sibling
\* containers, text that is not JSON, and letters in both cases.
DocNested == <<"{", "\"", "a", "\"", ":", "{", "\"", "b", "\"", ":", "1", "}", "}">>
DocSearch == <<"{", "\"", "a", "\"", ":", "1", ",", "\"", "b", "\"", ":", "[", "1", ",", "2", "]", "}">>
DocNull == <<"n", "u", "l", "l">>
DocEmptyKey == <<"{", "\"", "\"", ":", "1", "}">>
DocHuge == <<"1", "e", "9", "9", "9">>
DocSiblings == <<"[", "[", "1", "]", ",", "[", "2", "]", "]">>
DocBroken == <<"[", "1", ",">>
DocLetters == <<"[", "\"", "a", "A", "\"", ",", " ", "\"", "a", "\"", "]">>

\* The whole application, on sample inputs.
AppDocs == {DocNested, DocSiblings, DocBroken, DocLetters}
AppQueries == {<<"a">>, <<"1">>}
AppGzipInputs == {<<"Q", "Q", "=", "=">>, <<"!">>}
AppInflated == {Thrown, JStr(DocLetters), JStr(DocBroken)}

Next ==
    \/ \E v \in AppDocs \cup {<<>>} : setJsonText(v)
    \/ \E q \in AppQueries \cup {<<>>} : setSearchText(q)
    \/ OpenSearch
    \/ CloseSearch
    \/ \E direction \in {"next", "prev"} : handleSearchNav(direction)
    \/ ClickFormat
    \/ ClickMinify
    \/ \E v \in AppGzipInputs \cup {<<>>} : setGzipInput(v)
    \/ \E inflated \in AppInflated : handleDecodeGzip(inflated)
    \/ \E path \in DOMAIN expanded : toggle(path)

Spec == Init /\ [][Next]_vars

\* The search, on every short text and query over letters in both cases and
\* U+0130, whose lower case is longer than itself.
SearchAlphabet == {"a", "A", "U+0130"}

NextSearch ==
    \/ \E v \in Edits(jsonText, SearchAlphabet, MaxTextLen, {DocLetters}) : setJsonText(v)
    \/ \E q \in Edits(searchText, SearchAlphabet, MaxQueryLen, {}) : setSearchText(q)
    \/ OpenSearch
    \/ CloseSearch
    \/ \E direction \in {"next", "prev"} : handleSearchNav(direction)
    \/ ClickFormat
    \/ ClickMinify

SpecSearch == InitLoaded /\ [][NextSearch]_vars

\* The JSON text, on every short text over the alphabet and on the documents.
JsonAlphabet == {"[", "]", "{", "}", "\"", "1", "0", "e", "-", " "}
JsonDocs == {DocNested, DocSearch, DocNull, DocEmptyKey, DocHuge, DocSiblings, DocBroken}

NextJson ==
    \/ \E v \in Edits(jsonText, JsonAlphabet, MaxJsonLen, JsonDocs) : setJsonText(v)
    \/ ClickFormat
    \/ ClickMinify

SpecJson == InitLoaded /\ [][NextJson]_vars

\* The decoder, on every short input over a base64 digit, the padding, white
\* space and a character that is not base64.
GzipAlphabet == {"Q", "=", " ", "!"}

NextGzip ==
    \/ \E v \in Edits(gzipInput, GzipAlphabet, MaxGzipLen, {}) : setGzipInput(v)
    \/ \E inflated \in AppInflated : handleDecodeGzip(inflated)
    \/ \E v \in {DocBroken, DocLetters} : setJsonText(v)

SpecGzip == Init /\ [][NextGzip]_vars

-----------------------------------------------------------------------------
(* The search.                                                             *)

\* The offsets at which the lowercased query occurs in the lowercased text.
Occurrences(text, query) ==
    LET lowerText == toLowerCase(text)
        lowerQuery == toLowerCase(query)
    IN {i \in 0 .. (Len(lowerText) - Len(lowerQuery)) :
            SubSeq(lowerText, i + 1, i + Len(lowerQuery)) = lowerQuery}

\* C1: while search is open, the matches are exactly, in ascending order of
\* start, one span {start: i, end: i + query.length} for each offset i at
\* which the lowercased query occurs in the lowercased text, overlapping
\* occurrences included; there are none when the query is empty and none
\* when the query does not occur in the text.
C1_MatchSetIsTheOccurrences ==
    isSearchOpen =>
        IF searchText = <<>> THEN searchMatches = <<>>
        ELSE /\ {m.start : m \in Range(searchMatches)} = Occurrences(jsonText, searchText)
             /\ \A j, k \in 1 .. Len(searchMatches) :
                    j < k => searchMatches[j].start < searchMatches[k].start
             /\ \A k \in 1 .. Len(searchMatches) :
                    searchMatches[k].end = searchMatches[k].start + Len(searchText)

\* The index after pressing Next times times, from index, over length matches.
RECURSIVE PressNext(_, _, _)
PressNext(times, index, length) ==
    IF times = 0 THEN index ELSE PressNext(times - 1, NewIndex("next", index, length), length)

\* C2: over N >= 1 matches, Next takes index i to i + 1, or to 0 when
\* i = N - 1, and Prev takes i to i - 1, or to N - 1 when i = 0; N times Next
\* from index 0 comes back to 0 and Prev from index 0 gives N - 1.
C2_NavigationIsCyclic ==
    [][\A direction \in {"next", "prev"} :
          handleSearchNav(direction) /\ Len(searchMatches) >= 1 =>
              LET N == Len(searchMatches)
                  i == currentMatchIndex
              IN /\ direction = "next" =>
                        currentMatchIndex' = IF i = N - 1 THEN 0 ELSE i + 1
                 /\ direction = "prev" =>
                        currentMatchIndex' = IF i = 0 THEN N - 1 ELSE i - 1
                 /\ PressNext(N, 0, N) = 0
                 /\ NewIndex("prev", 0, N) = N - 1]_vars

\* C2 witness: over three or more matches, Next has wrapped from the last
\* match to the first.
C2_Witness ==
    /\ isSearchOpen
    /\ Len(searchMatches) >= 3
    /\ lastStep = [t |-> "nav", direction |-> "next", from |-> Len(searchMatches) - 1]
    /\ currentMatchIndex = 0

-----------------------------------------------------------------------------
(* The validation and the tree view.                                       *)

\* The text is not blank and JSON.parse rejects it.
Rejected(text) == ~IsBlank(text) /\ ~JSONParse(text).ok

\* The text is not blank and JSON.parse accepts it.
Accepted(text) == ~IsBlank(text) /\ JSONParse(text).ok

\* C3: the state after validation tells three outcomes apart: a blank text
\* gives no error and no value; a text the parser rejects gives an error and
\* no value; a text that parses, to whatever value, gives that value and no
\* error, which is not the outcome of a blank text.
C3_ThreeOutcomes ==
    /\ IsBlank(jsonText) => parsedJson = Null /\ error = Null
    /\ Rejected(jsonText) => parsedJson = Null /\ error /= Null
    /\ Accepted(jsonText) =>
           /\ parsedJson = JSONParse(jsonText).val
           /\ error = Null
           /\ <<parsedJson, error>> /= <<Null, Null>>

\* The entries of value v under the key prefix key (<<>> for none, <<k>> for
\* the key k), in container order: a line for a primitive and for an empty
\* container, and for any other container its opening line and the entries
\* of its children, those of an Object with their keys, those of an Array
\* without.
RECURSIVE Entries(_, _)
Entries(key, v) ==
    IF ~IsContainer(v) THEN <<[key |-> key, text |-> RenderValue(v)]>>
    ELSE IF Children(v) = <<>>
    THEN <<[key |-> key, text |-> IF v.t = "arr" THEN <<"[", "]">> ELSE <<"{", "}">>]>>
    ELSE <<[key |-> key, text |-> IF v.t = "arr" THEN <<"[">> ELSE <<"{">>]>>
         \o Flatten([i \in DOMAIN Children(v) |->
                Entries(IF v.t = "arr" THEN <<>> ELSE <<Children(v)[i][1]>>, Children(v)[i][2])])

\* The entries the lines of the tree view show.
ShownEntries(rows) ==
    LET entry(k) == [key |-> rows[k].key, text |-> rows[k].text]
        kept == {k \in DOMAIN rows : rows[k].kind /= "close"}
        RECURSIVE Pick(_)
        Pick(k) == IF k > Len(rows) THEN <<>>
                   ELSE (IF k \in kept THEN <<entry(k)>> ELSE <<>>) \o Pick(k + 1)
    IN Pick(1)

\* C4: for a text that parses, the tree view with every node expanded lists,
\* in container order, exactly the entries of the parsed value: the root
\* whatever it is, every child of an Object with its key whatever the key
\* is, every child of an Array without a key.
C4_TreeListsEveryEntry ==
    (Accepted(jsonText) /\ \A q \in DOMAIN expanded : expanded[q]) =>
        ShownEntries(TreeView(jsonText, parsedJson, error, expanded))
            = Entries(<<>>, JSONParse(jsonText).val)

\* C8: a text the parser rejects is left as the user entered it by the
\* validation, and while the text is one the parser rejects a click on
\* Format or on Minify changes nothing.
C8_SyntaxErrorKeepsText ==
    [][/\ \A v \in Edits(jsonText, JsonAlphabet, MaxJsonLen, JsonDocs) :
              setJsonText(v) /\ Rejected(v) => jsonText' = v /\ error' /= Null
       /\ (Rejected(jsonText) /\ (ClickFormat \/ ClickMinify)) =>
              UNCHANGED <<jsonText, parsedJson, error>>]_vars

\* C8 witness: the text is one the parser rejects and the validation has
\* reported it.
C8_Witness == jsonText = DocBroken /\ Rejected(jsonText) /\ error /= Null

\* C9: when the text parses to a value V, the text after Format and the text
\* after Minify parse without error to a value equal to V.
C9_FormatMinifyRoundTrip ==
    [][(Accepted(jsonText) /\ (ClickFormat \/ ClickMinify)) =>
          /\ Accepted(jsonText')
          /\ JSONParse(jsonText').val = JSONParse(jsonText).val]_vars

-----------------------------------------------------------------------------
(* The tree view's expanded flags.                                         *)

\* C5: the expanded flag of a node stays as it is while the document is the
\* same, and when a container is collapsed and then expanded again the tree
\* view shows what it showed before the collapse, every node below the
\* container with the flag it had.
C5_ReexpandRestoresSubtree ==
    lastStep.t = "reexpanded" =>
        /\ TreeView(jsonText, parsedJson, error, expanded) = lastStep.shown
        /\ \A q \in DOMAIN lastStep.cells :
               q \in DOMAIN expanded /\ expanded[q] = lastStep.cells[q]

\* C6: a toggle of the container at path flips the flag of that node, leaves
\* the flag of every other node that is not below it as it was, its siblings
\* and its ancestors among them, and leaves the text, the parsed value and
\* the search state as they were.
C6_ToggleFlipsOneNode ==
    [][\A path \in DOMAIN expanded :
          toggle(path) =>
              /\ path \in DOMAIN expanded' /\ expanded'[path] = ~expanded[path]
              /\ \A q \in DOMAIN expanded :
                     (q /= path /\ ~Below(path, q)) =>
                         q \in DOMAIN expanded' /\ expanded'[q] = expanded[q]
              /\ UNCHANGED <<jsonText, parsedJson, error, isSearchOpen, searchText,
                             searchMatches, currentMatchIndex>>]_vars

\* C6 witness: a container has just been collapsed while a sibling container
\* of it is collapsed and its parent is expanded.
C6_Witness ==
    /\ lastStep.t = "collapsed"
    /\ lastStep.path /= <<>>
    /\ ~expanded[lastStep.path]
    /\ \E q \in DOMAIN expanded :
           /\ q /= lastStep.path
           /\ SubSeq(q, 1, Len(q) - 1) = SubSeq(lastStep.path, 1, Len(lastStep.path) - 1)
           /\ Len(q) = Len(lastStep.path)
           /\ IsContainer(ValueAt(parsedJson, q))
           /\ ~expanded[q]

-----------------------------------------------------------------------------
(* The decoder.                                                            *)

\* C7: a Decode of an input that is not blank fails when the library is
\* missing, when the input is not base64 and when the bytes are no gzip
\* stream; a Decode that fails reports a decompression error, and a Decode
\* that reports an error leaves the text as it was.
C7_DecodeFailureKeepsText ==
    [][\A inflated \in AppInflated :
          handleDecodeGzip(inflated) =>
              /\ (~IsBlank(gzipInput)
                    /\ (~pako \/ ~base64ToUint8(gzipInput).ok \/ inflated = Thrown))
                     => gzipError' /= Null /\ gzipError'.t = "error"
              /\ gzipError' /= Null => jsonText' = jsonText]_vars

\* C7 witness: with the library loaded, a Decode of an input that is not
\* base64 has reported an error, the text being one that was entered.
C7_Witness ==
    /\ pako
    /\ ~IsBlank(gzipInput) /\ ~base64ToUint8(gzipInput).ok
    /\ gzipError = DecompressionFailed("InvalidCharacterError")
    /\ jsonText = DocLetters

-----------------------------------------------------------------------------
(* The search and the edits.                                               *)

\* C10: a step that changes the text or the query while the search stays
\* open leaves the MatchSet computed from the new text and the new query, and
\* the index 0.
C10_ChangeRecomputesAndResets ==
    [][(isSearchOpen /\ isSearchOpen' /\ <<jsonText', searchText'>> /= <<jsonText, searchText>>) =>
          /\ searchMatches' = IF searchText' = <<>> THEN <<>> ELSE findAll(jsonText', searchText')
          /\ currentMatchIndex' = 0]_vars

\* C10 witness: the text or the query changed while another match than the
\* first was selected, and the new MatchSet has a match at that index.
C10_Witness ==
    /\ lastStep.t = "changed"
    /\ lastStep.index > 0
    /\ lastStep.index < Len(searchMatches)
    /\ currentMatchIndex = 0

-----------------------------------------------------------------------------
(* The selected match and the spans.                                       *)

\* The selected index is one of the MatchSet, and 0 when there is none.
IndexInRange ==
    /\ Len(searchMatches) > 0 =>
           0 <= currentMatchIndex /\ currentMatchIndex < Len(searchMatches)
    /\ Len(searchMatches) = 0 => currentMatchIndex = 0

\* C11: in every state reached by opening and closing the search, editing
\* the text and the query, Next and Prev, the selected index is in
\* [0, MatchSet.length) when there are matches and 0 when there are none; and
\* Next and Prev on an empty MatchSet leave the index as it was.
C11_IndexInRange ==
    /\ []IndexInRange
    /\ [][\A direction \in {"next", "prev"} :
              (handleSearchNav(direction) /\ Len(searchMatches) = 0) =>
                  currentMatchIndex' = currentMatchIndex]_vars

\* C11 witness: with the search open on a query that does not occur, Prev
\* was pressed and the index is 0.
C11_Witness ==
    /\ isSearchOpen
    /\ searchText /= <<>>
    /\ Len(searchMatches) = 0
    /\ lastStep = [t |-> "nav", direction |-> "prev", from |-> 0]
    /\ currentMatchIndex = 0

\* C12: every span of the MatchSet lies in the raw text and is as long as
\* the query: 0 <= start < end <= text.length and end = start + query.length.
C12_SpansLieInTheText ==
    \A k \in 1 .. Len(searchMatches) :
        /\ 0 <= searchMatches[k].start
        /\ searchMatches[k].start < searchMatches[k].end
        /\ searchMatches[k].end <= Len(jsonText)
        /\ searchMatches[k].end = searchMatches[k].start + Len(searchText)

\* C13 as stated: consecutive spans of the MatchSet are in ascending order of
\* start and do not overlap, m1.start < m2.start and m1.end <= m2.start.
C13_SortedAndDisjoint ==
    \A k \in 1 .. Len(searchMatches) - 1 :
        /\ searchMatches[k].start < searchMatches[k + 1].start
        /\ searchMatches[k].end <= searchMatches[k + 1].start

\* C13: consecutive spans of the MatchSet are in strictly ascending order of
\* start, and of end; the scan resumes one code unit after the start of a
\* match, so the next span starts at m1.start + 1 or later and may overlap.
C13_SortedByStart ==
    \A k \in 1 .. Len(searchMatches) - 1 :
        /\ searchMatches[k].start + 1 <= searchMatches[k + 1].start
        /\ searchMatches[k].end < searchMatches[k + 1].end

\* C13 witness: a MatchSet with two consecutive spans that overlap.
C13_Witness ==
    /\ isSearchOpen
    /\ \E k \in 1 .. Len(searchMatches) - 1 :
           /\ searchMatches[k].start < searchMatches[k + 1].start
           /\ searchMatches[k + 1].start < searchMatches[k].end

====
